---- MODULE Spec2Model ----
(***************************************************************************)
(* A model of EasyCsvDb (src/easy_csv_db.py): a store handle that owns one *)
(* sqlite3 connection and a registry csv_path_by_table_name.               *)
(*                                                                         *)
(* The connection is modelled by the catalog the connection sees           *)
(* (tables), the catalog as of the last commit (committed) and the         *)
(* in_transaction flag, following the sqlite3 module's default (legacy)    *)
(* transaction control: a transaction is opened implicitly before an       *)
(* INSERT, never before DROP TABLE / CREATE TABLE, which are committed at  *)
(* once when no transaction is open.                                       *)
(***************************************************************************)
EXTENDS Integers, Sequences, FiniteSets, TLC

VARIABLES
    connection,              \* "open" | "closed"            (self.connection)
    tables,                  \* the catalog the connection sees, in catalog order
    committed,               \* the catalog as of the last commit
    in_transaction,          \* sqlite3.Connection.in_transaction
    csv_path_by_table_name,  \* the registry: a function from names to paths
    disk,                    \* the delimited text files, by path
    dirs,                    \* the directories the store has created
    backup_db,               \* the database file at BackupPath: "absent", "empty" or "copy"
    last,                    \* the last call: operation, arguments, outcome, output
    imported,                \* history: name -> path of its latest successful import
    snapshot,                \* history: name -> its table right after that import
    defined                  \* history: view name -> the query it was created with

vars == <<connection, tables, committed, in_transaction, csv_path_by_table_name,
          disk, dirs, backup_db, last, imported, snapshot, defined>>

(***************************************************************************)
(* Bounds                                                                  *)
(***************************************************************************)
\* Caller-issued INSERTs stop once a table holds this many rows.
MaxRows == 3

(***************************************************************************)
(* Values                                                                  *)
(***************************************************************************)
\* Python's None, bound by sqlite3 as SQL NULL.  Distinct from every text.
None == "<None>"

\* The two table names of the model.
TableNames == {"t", "u"}

\* A pathlib.Path, by the parts the code reads: parent (mkdir) and stem.
Path(parent, stem_, suffix) == [parent |-> parent, stem |-> stem_, suffix |-> suffix]

NoPath == Path("", "", "")

\* One physical record of a file as csv.reader yields it: a list of text
\* fields ([] for a blank line), or a record that cannot be decoded.
Line(fields) == [ok |-> TRUE, fields |-> fields]
BadLine == [ok |-> FALSE, fields |-> <<>>]

File(lines) == [exists |-> TRUE, lines |-> lines]
Missing == [exists |-> FALSE, lines |-> <<>>]

\* header id,name; two full rows (the file of the tests)
PathOk == Path("data", "t", ".csv")
\* header id,name; a row with one field more than the header, a blank line,
\* a row one field short
PathRagged == Path("data", "ragged", ".csv")
\* header id,id: the same column twice
PathDup == Path("data", "dup", ".csv")
\* header id; a row, then a record that fails to decode
PathMid == Path("data", "mid", ".csv")
\* a file of zero bytes
PathEmpty == Path("data", "empty", ".csv")
\* a file whose very first record fails to decode
PathBadHeader == Path("data", "badheader", ".csv")
\* no such file
PathMissing == Path("data", "missing", ".csv")

CsvPaths == {PathOk, PathRagged, PathDup, PathMid, PathEmpty, PathBadHeader, PathMissing}

InitialDisk ==
    [p \in CsvPaths |->
        CASE p = PathOk -> File(<<Line(<<"id", "name">>), Line(<<"1", "Alice">>),
                                  Line(<<"2", "Bob">>)>>)
          [] p = PathRagged -> File(<<Line(<<"id", "name">>), Line(<<"1", "Alice", "extra">>),
                                      Line(<<>>), Line(<<"2">>)>>)
          [] p = PathDup -> File(<<Line(<<"id", "id">>), Line(<<"1", "2">>)>>)
          [] p = PathMid -> File(<<Line(<<"id">>), Line(<<"1">>), BadLine, Line(<<"3">>)>>)
          [] p = PathEmpty -> File(<<>>)
          [] p = PathBadHeader -> File(<<BadLine, Line(<<"1">>)>>)
          [] OTHER -> Missing]

\* Where backup_to_db_file and export_table_schemas_as_jsons write.
BackupPath == Path("outputs", "test_backup", ".sqlite")
SchemaDir == "schemas"

(***************************************************************************)
(* csv.DictReader, as create_table_from_csv uses it                        *)
(***************************************************************************)
\* dr.fieldnames: the first record, whatever it is; None for an empty file.
\* (Reading it raises when the record cannot be decoded: see HeaderRaises.)
fieldnames(f) == IF f.lines = <<>> THEN None ELSE f.lines[1].fields

HeaderRaises(f) == f.lines # <<>> /\ ~f.lines[1].ok

\* DictReader.__next__ for one record: dict(zip(fieldnames, row)), the
\* surplus fields under restkey, the missing ones set to restval (None).
DictRow(field_names, row) ==
    LET lf == Len(field_names)
        lr == Len(row)
        padded == [i \in 1..lf |-> IF i <= lr THEN row[i] ELSE None]
        keys == {field_names[i] : i \in 1..lf}
        lastIndex(k) == CHOOSE i \in 1..lf :
                            /\ field_names[i] = k
                            /\ \A j \in 1..lf : field_names[j] = k => j <= i
    IN [d |-> [k \in keys |-> padded[lastIndex(k)]],
        restkey |-> IF lf < lr THEN SubSeq(row, lf + 1, lr) ELSE <<>>]

\* RowValues with the missing fields filled with '' (restval="").
RowValuesBlankFill(field_names, row) ==
    [i \in 1..Len(field_names) |-> IF i <= Len(row) THEN row[i] ELSE ""]

\* list(map(row.get, field_names)): the values bound to the INSERT.
RowValues(field_names, row) ==
    LET r == DictRow(field_names, row)
    IN [i \in 1..Len(field_names) |-> r.d[field_names[i]]]

\* The index of the first data record that cannot be read, or Len + 1.
FirstBad(lines) ==
    IF \E i \in 2..Len(lines) : ~lines[i].ok
    THEN CHOOSE i \in 2..Len(lines) :
             ~lines[i].ok /\ \A j \in 2..(i - 1) : lines[j].ok
    ELSE Len(lines) + 1

\* The parameter rows the generator at line 109 yields from records
\* lo..hi: blank lines are skipped by DictReader.
RECURSIVE ParamRows(_, _, _, _)
ParamRows(field_names, lines, lo, hi) ==
    IF lo > hi THEN <<>>
    ELSE IF lines[lo].fields = <<>>
         THEN ParamRows(field_names, lines, lo + 1, hi)
         ELSE <<RowValues(field_names, lines[lo].fields)>>
              \o ParamRows(field_names, lines, lo + 1, hi)

(***************************************************************************)
(* The embedded engine, as far as the code drives it                       *)
(***************************************************************************)
NoQuery == [from |-> "", gt |-> ""]

TableEntry(name, cols) ==
    [name |-> name, type |-> "table", cols |-> cols, rows |-> <<>>, sql |-> NoQuery]

ViewEntry(name, query) ==
    [name |-> name, type |-> "view", cols |-> <<>>, rows |-> <<>>, sql |-> query]

\* A connection state: what the statements below read and change.
Conn(tbls, comm, txn) == [tables |-> tbls, committed |-> comm, in_transaction |-> txn]

Has(catalog, name) == \E i \in 1..Len(catalog) : catalog[i].name = name

Index(catalog, name) == CHOOSE i \in 1..Len(catalog) : catalog[i].name = name

Remove(catalog, name) == SelectSeq(catalog, LAMBDA e : e.name # name)

\* A data-definition statement runs inside the open transaction if there is
\* one and is committed at once otherwise.
Ddl(c, newTables) ==
    Conn(newTables, IF c.in_transaction THEN c.committed ELSE newTables, c.in_transaction)

\* An INSERT first opens a transaction if none is open.
Dml(c, newTables) == Conn(newTables, c.committed, TRUE)

Commit(c) == Conn(c.tables, c.tables, FALSE)

Rollback(c) == Conn(c.committed, c.committed, FALSE)

\* DROP TABLE IF EXISTS "name" raises when name is a view.
DropRaises(c, name) == Has(c.tables, name) /\ c.tables[Index(c.tables, name)].type = "view"

DropTableIfExists(c, name) == Ddl(c, Remove(c.tables, name))

\* CREATE TABLE "name" ( cols ) raises on an empty column list, a repeated
\* column name or a name already in the catalog.
CreateRaises(c, name, cols) ==
    \/ cols = <<>>
    \/ \E i, j \in 1..Len(cols) : i # j /\ cols[i] = cols[j]
    \/ Has(c.tables, name)

CreateTable(c, name, cols) == Ddl(c, Append(c.tables, TableEntry(name, cols)))

\* INSERT INTO "name" VALUES (?, ...) once per parameter row.
InsertMany(c, name, rows) ==
    LET i == Index(c.tables, name)
    IN Dml(c, [c.tables EXCEPT ![i].rows = @ \o rows])

(***************************************************************************)
(* EasyCsvDb                                                               *)
(***************************************************************************)
\* NamesOfType reading the catalog newest first (ORDER BY rowid DESC).
RECURSIVE NamesOfTypeReversed(_, _)
NamesOfTypeReversed(catalog, types) ==
    IF catalog = <<>> THEN <<>>
    ELSE NamesOfTypeReversed(Tail(catalog), types)
         \o (IF Head(catalog).type \in types THEN <<Head(catalog).name>> ELSE <<>>)

\* SELECT name FROM sqlite_master WHERE type=...: the names of the catalog's
\* entries of the given types, in catalog order.
RECURSIVE NamesOfType(_, _)
NamesOfType(catalog, types) ==
    IF catalog = <<>> THEN <<>>
    ELSE (IF Head(catalog).type \in types THEN <<Head(catalog).name>> ELSE <<>>)
         \o NamesOfType(Tail(catalog), types)

\* get_all_table_names: the catalog's entries of type 'table'.
get_all_table_names == NamesOfType(tables, {"table"})

\* Register as dict.setdefault: an entry already there is kept.
RegisterIfAbsent(reg, table_name, csv_path) ==
    [n \in DOMAIN reg \cup {table_name} |->
        IF n \in DOMAIN reg THEN reg[n] ELSE csv_path]

\* Register as a fresh dict holding the new entry alone.
RegisterAlone(reg, table_name, csv_path) == [n \in {table_name} |-> csv_path]

\* Line 111: the registry entry of table_name is set to csv_path.
Register(reg, table_name, csv_path) ==
    [n \in DOMAIN reg \cup {table_name} |->
        IF n = table_name THEN csv_path ELSE reg[n]]

\* Lines 91-92: table_name defaults to the path's stem.
EffectiveName(csv_path, table_name) ==
    IF table_name = "" THEN csv_path.stem ELSE table_name

\* What leaving "with self.connection" does: commit on a normal exit,
\* rollback when the body raised.
WithExit(c, raised) == IF raised THEN Rollback(c) ELSE Commit(c)

\* ImportRecreate as CREATE TABLE IF NOT EXISTS with no DROP before it.
ImportCreateIfMissing(c, name, field_names) ==
    IF Has(c.tables, name) THEN [conn |-> c, raised |-> FALSE]
    ELSE IF field_names = None THEN [conn |-> c, raised |-> TRUE]
    ELSE IF CreateRaises(c, name, field_names) THEN [conn |-> c, raised |-> TRUE]
    ELSE [conn |-> CreateTable(c, name, field_names), raised |-> FALSE]

\* Lines 99-105: DROP TABLE IF EXISTS, then CREATE TABLE with the header's
\* columns.  The connection state the two statements leave and whether one
\* of them (or formatting a None header, line 102) raised.
ImportRecreate(c, name, field_names) ==
    IF DropRaises(c, name) THEN [conn |-> c, raised |-> TRUE]
    ELSE LET dropped == DropTableIfExists(c, name)
         IN IF field_names = None
            THEN [conn |-> dropped, raised |-> TRUE]
            ELSE IF CreateRaises(dropped, name, field_names)
                 THEN [conn |-> dropped, raised |-> TRUE]
                 ELSE [conn |-> CreateTable(dropped, name, field_names), raised |-> FALSE]

\* Lines 107-109: the rows inserted before the generator stops or raises.
ImportInsert(c, name, field_names, lines) ==
    InsertMany(c, name, ParamRows(field_names, lines, 2, FirstBad(lines) - 1))

\* RegistryAfter with line 111 moved before the with blocks.
RegistryAfterAlways(reg, name, csv_path, raised) == Register(reg, name, csv_path)

\* Line 111 is reached only when the with blocks were left without raising.
RegistryAfter(reg, name, csv_path, raised) ==
    IF raised THEN reg ELSE Register(reg, name, csv_path)

\* create_table_from_csv on an open connection: the connection state and
\* registry it leaves, and whether it raised.
create_table_from_csv(c, reg, f, csv_path, table_name) ==
    LET name == EffectiveName(csv_path, table_name)
        field_names == fieldnames(f)
        recreated == ImportRecreate(c, name, field_names)
        inserted == ImportInsert(recreated.conn, name, field_names, f.lines)
        Result(cc, raised) == [conn |-> cc, raised |-> raised,
                               reg |-> RegistryAfter(reg, name, csv_path, raised)]
    IN IF ~f.exists THEN Result(c, TRUE)                     \* open(), line 94
       ELSE IF HeaderRaises(f) THEN Result(WithExit(c, TRUE), TRUE)   \* line 97
       ELSE IF recreated.raised THEN Result(WithExit(recreated.conn, TRUE), TRUE)
       ELSE IF FirstBad(f.lines) <= Len(f.lines)
            THEN Result(WithExit(inserted, TRUE), TRUE)     \* line 109 raises
       ELSE Result(WithExit(inserted, FALSE), FALSE)

\* The record of a call: the operation, the name and path it was about, how
\* it ended ("ok", "raise", or "hang" for a call that never returns), what it
\* printed or wrote, its other argument, and what held just before it.
Call(op, name, path, result, out, arg, before) ==
    [op |-> op, name |-> name, path |-> path, result |-> result, out |-> out,
     arg |-> arg, before |-> before]

\* The table_names argument of export_table_schemas_as_jsons: None, or a list.
AllTables == [given |-> FALSE, names |-> <<>>]
Listed(names) == [given |-> TRUE, names |-> names]

\* The calls that take no such argument.
NoArg == Listed(<<"-">>)

\* The table named name in a catalog, or a marker when there is none.
NoTable == [name |-> "", type |-> "none", cols |-> <<>>, rows |-> <<>>, sql |-> NoQuery]

TableOf(catalog, name) == IF Has(catalog, name) THEN catalog[Index(catalog, name)] ELSE NoTable

\* The program is single-threaded: a call that never returns ends the run.
Running == last.result # "hang"

Init ==
    /\ connection = "open"
    /\ tables = <<>>
    /\ committed = <<>>
    /\ in_transaction = FALSE
    /\ csv_path_by_table_name = <<>>
    /\ disk = InitialDisk
    /\ dirs = {}
    /\ backup_db = "absent"
    /\ last = Call("init", "", NoPath, "ok", <<>>,
                    NoArg, [entry |-> NoPath, pending |-> FALSE, modified |-> FALSE])
    /\ imported = <<>>
    /\ snapshot = <<>>
    /\ defined = <<>>

\* The calls create_table_from_csv is made with: every file under "t", one
\* file under "u", and one call that leaves the name to default.
ImportCalls ==
    {<<p, "t">> : p \in CsvPaths} \cup {<<PathRagged, "u">>, <<PathOk, "">>}

\* History: h with the value of name set to v.
Record(h, name, v) == [n \in DOMAIN h \cup {name} |-> IF n = name THEN v ELSE h[n]]

\* What held just before a call about name: the name's registry entry,
\* whether a transaction was open, and whether the name's table differed
\* from what its latest successful import had left.
Before(name) ==
    [entry |-> IF name \in DOMAIN csv_path_by_table_name
               THEN csv_path_by_table_name[name] ELSE NoPath,
     pending |-> in_transaction,
     modified |-> name \in DOMAIN snapshot /\ TableOf(tables, name) # snapshot[name]]

Import(csv_path, table_name) ==
    /\ Running
    /\ LET name == EffectiveName(csv_path, table_name)
           r == create_table_from_csv(Conn(tables, committed, in_transaction),
                                      csv_path_by_table_name, disk[csv_path],
                                      csv_path, table_name)
       IN IF connection = "closed"
          \* every statement, and the rollback on the way out, raises
          THEN /\ last' = Call("import", name, csv_path, "raise", <<>>,
                    NoArg, Before(name))
               /\ UNCHANGED <<tables, committed, in_transaction,
                              csv_path_by_table_name, imported, snapshot, defined>>
          ELSE /\ tables' = r.conn.tables
               /\ committed' = r.conn.committed
               /\ in_transaction' = r.conn.in_transaction
               /\ csv_path_by_table_name' = r.reg
               /\ last' = Call("import", name, csv_path,
                               IF r.raised THEN "raise" ELSE "ok", <<>>,
                    NoArg, Before(name))
               /\ imported' = IF r.raised THEN imported
                              ELSE Record(imported, name, csv_path)
               /\ snapshot' = IF r.raised THEN snapshot
                              ELSE Record(snapshot, name, TableOf(r.conn.tables, name))
    /\ UNCHANGED <<connection, disk, dirs, backup_db, defined>>

\* connection.execute("INSERT INTO name VALUES (...)") by the caller, as in
\* test_execute: one more row, left uncommitted.
CallerInsert(name) ==
    /\ Running
    /\ IF connection = "closed"
       THEN /\ last' = Call("execute", name, NoPath, "raise", <<>>,
                    NoArg, Before(name))
            /\ UNCHANGED <<tables, committed, in_transaction>>
       ELSE /\ Has(tables, name)
            /\ TableOf(tables, name).type = "table"
            /\ Len(TableOf(tables, name).rows) < MaxRows
            /\ LET c == InsertMany(Conn(tables, committed, in_transaction), name,
                                   <<[i \in 1..Len(TableOf(tables, name).cols) |-> "3"]>>)
               IN /\ tables' = c.tables
                  /\ committed' = c.committed
                  /\ in_transaction' = c.in_transaction
            /\ last' = Call("execute", name, NoPath, "ok", <<>>,
                    NoArg, Before(name))
    /\ UNCHANGED <<connection, csv_path_by_table_name, disk, dirs, backup_db, imported, snapshot, defined>>

\* connection.execute("DROP TABLE name") by the caller.
CallerDrop(name) ==
    /\ Running
    /\ connection = "open"
    /\ Has(tables, name)
    /\ TableOf(tables, name).type = "table"
    /\ LET c == Ddl(Conn(tables, committed, in_transaction), Remove(tables, name))
       IN /\ tables' = c.tables
          /\ committed' = c.committed
          /\ in_transaction' = c.in_transaction
    /\ last' = Call("execute", name, NoPath, "ok", <<>>,
                    NoArg, Before(name))
    /\ UNCHANGED <<connection, csv_path_by_table_name, disk, dirs, backup_db, imported, snapshot, defined>>

\* connection.commit() by the caller.
CallerCommit ==
    /\ Running
    /\ connection = "open"
    /\ in_transaction
    /\ LET c == Commit(Conn(tables, committed, in_transaction))
       IN /\ tables' = c.tables
          /\ committed' = c.committed
          /\ in_transaction' = c.in_transaction
    /\ last' = Call("commit", "", NoPath, "ok", <<>>,
                    NoArg, Before(""))
    /\ UNCHANGED <<connection, csv_path_by_table_name, disk, dirs, backup_db, imported, snapshot, defined>>

\* Path.as_posix(), kept as the parts it joins.
as_posix(p) == <<p.parent, "/", p.stem, p.suffix>>

NotFromCsv == <<"This table was not created from a CSV file.">>

\* display_tables' default for max_table_rows_to_display.
DefaultMaxTableRows == 4

Take(rows, n) == SubSeq(rows, 1, IF Len(rows) < n THEN Len(rows) ELSE n)

\* Lines 68-85: what display_tables prints for each name of
\* get_all_table_names: the name, where it is from, and at most
\* max_table_rows_to_display rows (SELECT * ... LIMIT).
display_tables(names, reg, catalog, max_table_rows_to_display) ==
    [i \in 1..Len(names) |->
        [table |-> names[i],
         from |-> IF names[i] \in DOMAIN reg THEN as_posix(reg[names[i]]) ELSE NotFromCsv,
         columns |-> TableOf(catalog, names[i]).cols,
         rows |-> Take(TableOf(catalog, names[i]).rows, max_table_rows_to_display)]]

Display(max_table_rows_to_display) ==
    /\ Running
    /\ last' = IF connection = "closed"
               THEN Call("display", "", NoPath, "raise", <<>>,
                    NoArg, Before(""))   \* line 68 raises
               ELSE Call("display", "", NoPath, "ok",
                         display_tables(get_all_table_names, csv_path_by_table_name,
                                        tables, max_table_rows_to_display),
                    NoArg, Before(""))
    /\ UNCHANGED <<connection, tables, committed, in_transaction,
                   csv_path_by_table_name, disk, dirs, backup_db,
                   imported, snapshot, defined>>

\* Lines 117-119: sqlite3.connect creates an empty database file when
\* there is none and opens the one there is.
ConnectBackup(file) == IF file = "absent" THEN "empty" ELSE file

\* Line 122: Connection.backup copies the source database over the
\* destination.  With a write transaction open on the source the engine
\* answers SQLITE_BUSY and the sqlite3 module retries without end; on a
\* closed connection it raises.
BackupOutcome(conn_state, txn) ==
    IF conn_state = "closed" THEN "raise" ELSE IF txn THEN "hang" ELSE "ok"

\* The destination file the call leaves.
backup_to_db_file(file, conn_state, txn) ==
    IF BackupOutcome(conn_state, txn) = "ok" THEN "copy" ELSE ConnectBackup(file)

\* The catalog the destination holds when reopened after the call, where the
\* call decides it: the copy, or nothing for a file the call itself created.
Reopened(catalog, conn_state, txn) ==
    IF BackupOutcome(conn_state, txn) = "ok" THEN catalog ELSE <<>>

Backup(backup_db_file_path) ==
    /\ Running
    /\ dirs' = dirs \cup {backup_db_file_path.parent}             \* line 115
    /\ backup_db' = backup_to_db_file(backup_db, connection, in_transaction)
    /\ last' = Call("backup", "", backup_db_file_path,
                    BackupOutcome(connection, in_transaction),
                    Reopened(tables, connection, in_transaction),
                    NoArg, Before(""))
    /\ UNCHANGED <<connection, tables, committed, in_transaction,
                   csv_path_by_table_name, disk, imported, snapshot, defined>>


\* Lines 195-196.
ExportNames(table_names) ==
    IF table_names.given THEN table_names.names ELSE get_all_table_names

\* Lines 195-203 on a closed connection: get_all_table_names raises, and so
\* does the first table's cursor; an explicit empty list touches nothing.
ExportRaises(conn_state, table_names) ==
    conn_state = "closed" /\ (~table_names.given \/ table_names.names # <<>>)

\* Lines 198-213: one <name>_schema.json per name, holding the columns
\* PRAGMA table_info reports (none for a name the catalog does not hold).
WriteSchemas(names, catalog) ==
    [i \in 1..Len(names) |->
        [file |-> <<names[i], "_schema.json">>, columns |-> TableOf(catalog, names[i]).cols]]

Export(table_names) ==
    /\ Running
    /\ dirs' = dirs \cup {SchemaDir}                              \* line 192
    /\ last' = IF ExportRaises(connection, table_names)
               THEN Call("export", "", NoPath, "raise", <<>>,
                    table_names, Before(""))
               ELSE Call("export", "", NoPath, "ok",
                         WriteSchemas(ExportNames(table_names), tables),
                    table_names, Before(""))
    /\ UNCHANGED <<connection, tables, committed, in_transaction,
                   csv_path_by_table_name, disk, backup_db, imported, snapshot, defined>>

\* __exit__ closing without the commit: pending work is rolled back.
exit_without_commit(c) == Rollback(c)

\* Line 226.
exit_commit(c) == Commit(c)

\* __exit__: commit, then close.  On a closed connection commit raises.
Teardown ==
    /\ Running
    /\ IF connection = "closed"
       THEN /\ last' = Call("exit", "", NoPath, "raise", <<>>,
                    NoArg, Before(""))
            /\ UNCHANGED <<connection, tables, committed, in_transaction>>
       ELSE /\ LET c == exit_commit(Conn(tables, committed, in_transaction))
               IN /\ tables' = c.committed      \* what a closed store still holds
                  /\ committed' = c.committed
                  /\ in_transaction' = FALSE
            /\ connection' = "closed"                              \* line 227
            /\ last' = Call("exit", "", NoPath, "ok", <<>>,
                    NoArg, Before(""))
    /\ UNCHANGED <<csv_path_by_table_name, disk, dirs, backup_db,
                   imported, snapshot, defined>>

Next ==
    \/ \E call \in ImportCalls : Import(call[1], call[2])
    \/ \E n \in TableNames : CallerInsert(n)
    \/ \E n \in TableNames : CallerDrop(n)
    \/ CallerCommit
    \/ \E m \in {1, DefaultMaxTableRows} : Display(m)
    \/ Backup(BackupPath)
    \/ \E names \in {AllTables, Listed(<<>>), Listed(<<"t">>)} : Export(names)
    \/ Teardown

Spec == Init /\ [][Next]_vars

(***************************************************************************)
(* Views.  create_view, get_all_view_names and get_all_table_and_view_names *)
(* are called by src/tests/test_main.py and are not part of                *)
(* src/easy_csv_db.py; they are modelled from the specification's Entity   *)
(* Registry, Table/View Builder and Sync Writer and from what the tests    *)
(* assert.                                                                 *)
(***************************************************************************)
\* A CREATE VIEW statement of the tests' shape:
\* CREATE VIEW <view> AS SELECT * FROM <from> WHERE <first column> > '<gt>'.
Statement(view, from, gt) == [view |-> view, query |-> [from |-> from, gt |-> gt]]

\* Text comparison over the values of the model; a NULL compares to nothing.
Rank(v) == CASE v = "1" -> 1 [] v = "2" -> 2 [] v = "3" -> 3 [] OTHER -> 0

Greater(a, b) == a # None /\ b # None /\ Rank(a) > Rank(b)

SelectError == [ok |-> FALSE, cols |-> <<>>, rows |-> <<>>]

\* The rows a query selects from the catalog's current contents.
EvalQuery(catalog, query) ==
    LET base == TableOf(catalog, query.from)
    IN IF base.type # "table" THEN SelectError
       ELSE [ok |-> TRUE, cols |-> base.cols,
             rows |-> SelectSeq(base.rows, LAMBDA r : Greater(r[1], query.gt))]

\* SELECT * FROM name: a table's rows, or a view's query computed on read.
Select(catalog, name) ==
    LET e == TableOf(catalog, name)
    IN CASE e.type = "table" -> [ok |-> TRUE, cols |-> e.cols, rows |-> e.rows]
         [] e.type = "view" -> EvalQuery(catalog, e.sql)
         [] OTHER -> SelectError

get_all_view_names == NamesOfType(tables, {"view"})

get_all_table_and_view_names == NamesOfType(tables, {"table", "view"})

\* Export: the header, then one record per row; an absent value is written
\* as an empty field.
ExportCsv(result) ==
    File(<<Line(result.cols)>>
         \o [i \in 1..Len(result.rows) |->
                Line([j \in 1..Len(result.rows[i]) |->
                         IF result.rows[i][j] = None THEN "" ELSE result.rows[i][j]])])

\* CREATE VIEW: the catalog gains a view holding the query text.
ExecCreateView(c, statement) ==
    Ddl(c, Append(c.tables, ViewEntry(statement.view, statement.query)))

\* create_view(create_view_statement, csv_path, view_name) on an open
\* connection: run the statement, check that view_name is now among the
\* view names, register view_name -> csv_path, write the view to csv_path.
create_view(c, reg, files, statement, csv_path, view_name) ==
    LET created == ExecCreateView(c, statement)
        names == NamesOfType(created.tables, {"view"})
        result == Select(created.tables, view_name)
        registered == Register(reg, view_name, csv_path)
    IN IF Has(c.tables, statement.view)               \* the engine refuses the name
       THEN [conn |-> c, reg |-> reg, files |-> files, raised |-> TRUE, ran |-> FALSE]
       ELSE IF \A i \in 1..Len(names) : names[i] # view_name     \* name mismatch
       THEN [conn |-> created, reg |-> reg, files |-> files, raised |-> TRUE, ran |-> TRUE]
       ELSE IF ~result.ok                              \* the view cannot be read
       THEN [conn |-> created, reg |-> registered, files |-> files,
             raised |-> TRUE, ran |-> TRUE]
       ELSE [conn |-> created, reg |-> registered,
             files |-> [files EXCEPT ![csv_path] = ExportCsv(result)],
             raised |-> FALSE, ran |-> TRUE]

CreateView(statement, csv_path, view_name) ==
    /\ Running
    /\ connection = "open"
    /\ LET r == create_view(Conn(tables, committed, in_transaction),
                            csv_path_by_table_name, disk, statement, csv_path, view_name)
       IN /\ tables' = r.conn.tables
          /\ committed' = r.conn.committed
          /\ in_transaction' = r.conn.in_transaction
          /\ csv_path_by_table_name' = r.reg
          /\ disk' = r.files
          /\ defined' = IF r.ran THEN Record(defined, statement.view, statement.query)
                        ELSE defined
          /\ last' = Call("create_view", view_name, csv_path,
                          IF r.raised THEN "raise" ELSE "ok", <<>>, NoArg, Before(view_name))
    /\ UNCHANGED <<connection, dirs, backup_db, imported, snapshot>>

\* The tests' statement, under the name it defines and under another one.
ViewCalls == {<<Statement("v", "t", "1"), PathOk, n>> : n \in {"v", "w"}}

ViewImportCalls == {<<PathOk, "t">>, <<PathRagged, "t">>, <<PathOk, "v">>}

NextView ==
    \/ \E call \in ViewImportCalls : Import(call[1], call[2])
    \/ CallerInsert("t")
    \/ CallerDrop("t")
    \/ CallerCommit
    \/ \E call \in ViewCalls : CreateView(call[1], call[2], call[3])
    \/ Display(DefaultMaxTableRows)

SpecView == Init /\ [][NextView]_vars


(***************************************************************************)
(* Properties                                                              *)
(***************************************************************************)
ImportRaised(call) == call.op = "import" /\ call.result = "raise"
ImportSucceeded(call) == call.op = "import" /\ call.result = "ok"

\* C1: a create_table_from_csv that raises leaves the catalog, every table's
\* columns and rows, and the registry as they were before the call.
C1_FailedImportLeavesStoreUnchanged ==
    [][ImportRaised(last') =>
           /\ tables' = tables
           /\ csv_path_by_table_name' = csv_path_by_table_name]_vars

\* A data record with more fields than the header.
HasSurplus(f) ==
    /\ f.exists
    /\ f.lines # <<>>
    /\ \E i \in 2..Len(f.lines) :
           f.lines[i].ok /\ Len(f.lines[i].fields) > Len(f.lines[1].fields)

\* The rows a surplus record would leave if its surplus fields were cut off.
Truncated(f) ==
    {SubSeq(f.lines[i].fields, 1, Len(f.lines[1].fields)) :
        i \in {j \in 2..Len(f.lines) : Len(f.lines[j].fields) > Len(f.lines[1].fields)}}

\* C2: importing a file with a record longer than the header raises, and the
\* table holds no row made of that record with its surplus fields cut off.
C2_SurplusFieldsFailImport ==
    (last.op = "import" /\ HasSurplus(disk[last.path])) =>
        /\ last.result = "raise"
        /\ \A i \in 1..Len(TableOf(tables, last.name).rows) :
               TableOf(tables, last.name).rows[i] \notin Truncated(disk[last.path])

C4_ImportIdempotent ==
    [][(/\ ImportSucceeded(last')
        /\ last'.name \in DOMAIN imported
        /\ imported[last'.name] = last'.path)
           => TableOf(tables', last'.name) = snapshot[last'.name]]_vars

\* The file was imported again under the same name after the caller had
\* changed the table.
C4_Witness ==
    /\ ImportSucceeded(last)
    /\ last.before.entry = last.path
    /\ last.before.modified
    /\ last.path = PathOk
    /\ Len(TableOf(tables, last.name).rows) = 2

\* C6: backup_to_db_file on an open store returns, having created the
\* destination directory and a file that reopens to the store's tables and
\* rows, and leaves the store's tables and registry alone.
C6_SnapshotFidelity ==
    [][(last'.op = "backup" /\ connection = "open") =>
           /\ last'.result = "ok"
           /\ last'.path.parent \in dirs'
           /\ backup_db' = "copy"
           /\ last'.out = tables
           /\ tables' = tables
           /\ csv_path_by_table_name' = csv_path_by_table_name]_vars

\* The rows of a table whose first field is greater than a text, in order.
RECURSIVE RowsAbove(_, _)
RowsAbove(rows, gt) ==
    IF rows = <<>> THEN <<>>
    ELSE (IF Head(rows)[1] \in {"1", "2", "3"} /\ Rank(Head(rows)[1]) > Rank(gt)
          THEN <<Head(rows)>> ELSE <<>>) \o RowsAbove(Tail(rows), gt)

StoreVars == <<connection, tables, committed, in_transaction, csv_path_by_table_name, disk>>

\* Open -> Closed happens in __exit__ alone, which commits what is pending
\* before it closes.
TeardownOrdering ==
    /\ connection' # connection =>
           connection = "open" /\ connection' = "closed" /\ last'.op = "exit"
    /\ (last'.op = "exit" /\ last'.result = "ok") =>
           connection = "open" /\ connection' = "closed" /\ committed' = tables

\* C7 as stated: teardown ordering, and once Closed every operation raises
\* and changes nothing.
C7_TeardownThenNothing ==
    [][/\ TeardownOrdering
       /\ connection = "closed" =>
              /\ last'.result = "raise"
              /\ UNCHANGED <<StoreVars, dirs, backup_db>>]_vars

\* C7 as amended: teardown ordering; once Closed no operation changes the
\* catalog, the rows, the committed data, the registry or the text files,
\* and every operation raises except a schema export given an explicit empty
\* list, which writes no file; only backup_to_db_file and
\* export_table_schemas_as_jsons still touch the file system (their
\* destination directory, and backup's empty destination file).
C7_TeardownThenStoreFrozen ==
    [][/\ TeardownOrdering
       /\ connection = "closed" =>
              /\ UNCHANGED StoreVars
              /\ last'.result \in {"raise", "ok"}
              /\ last'.result = "ok" =>
                     last'.op = "export" /\ last'.arg = Listed(<<>>) /\ last'.out = <<>>
              /\ (dirs' # dirs \/ backup_db' # backup_db) =>
                     last'.op \in {"backup", "export"}]_vars

\* Teardown found a transaction open and committed a caller's row with it.
C7_Witness ==
    /\ last.op = "exit"
    /\ last.result = "ok"
    /\ last.before.pending
    /\ connection = "closed"
    /\ \E i \in 1..Len(committed) : \E j \in 1..Len(committed[i].rows) :
           committed[i].rows[j][1] = "3"

\* The data records of a file: its lines after the header, blank lines
\* aside (a blank line holds no field and is no record).
Records(f) ==
    SelectSeq(SubSeq(f.lines, 2, Len(f.lines)), LAMBDA l : l.fields # <<>>)

CatalogTables(catalog) ==
    {catalog[i].name : i \in {j \in 1..Len(catalog) : catalog[j].type = "table"}}

\* names lists each of the catalog's tables once, and nothing else.
ListsCatalogTables(names, catalog) ==
    /\ Len(names) = Cardinality(CatalogTables(catalog))
    /\ {names[i] : i \in 1..Len(names)} = CatalogTables(catalog)

\* C9: no step removes a registry key, and only an import changes an entry;
\* display_tables, and export_table_schemas_as_jsons given no table list,
\* go through the catalog's tables and through no other registered name.
C9_RegistryNeverShrinks ==
    [][/\ DOMAIN csv_path_by_table_name \subseteq DOMAIN csv_path_by_table_name'
       /\ last'.op # "import" => csv_path_by_table_name' = csv_path_by_table_name
       /\ (last'.op = "display" /\ last'.result = "ok") =>
              ListsCatalogTables([i \in 1..Len(last'.out) |-> last'.out[i].table], tables)
       /\ (last'.op = "export" /\ last'.result = "ok" /\ last'.arg = AllTables) =>
              ListsCatalogTables([i \in 1..Len(last'.out) |-> last'.out[i].file[1]], tables)
      ]_vars

\* t is still registered after its table was dropped, and display_tables
\* has just run without showing it.
C9_Witness ==
    /\ last.op = "display"
    /\ last.result = "ok"
    /\ "t" \in DOMAIN csv_path_by_table_name
    /\ ~Has(tables, "t")
    /\ Len(last.out) = 1

====
